---- MODULE Spec2Model ----
(***************************************************************************)
(* typed-meteor: typedMethod and typedSubscribe, the two factories that    *)
(* bind a Zod schema to Meteor.methods/Meteor.callAsync and to             *)
(* Meteor.publish/Meteor.subscribe.                                        *)
(*                                                                         *)
(* The repository carries two builds of the module:                        *)
(*   "hook"  : src/index.ts          (optional schemas, `?? x` fallback,   *)
(*                                    subscription wrapped in useTracker)  *)
(*   "plain" : src/unnamed/part_001  (required schemas, plain function)    *)
(* The build is fixed in Init and every operator that differs between the  *)
(* two takes it as a parameter.                                            *)
(***************************************************************************)
EXTENDS Integers, Sequences, FiniteSets, TLC

\* ------------------------------------------------------------------ bounds
MaxCalls == 2   \* invocations of a typed method callable
MaxRuns  == 2   \* runs of a typed subscription callable
MaxDocs  == 2   \* documents in the bound collection
MaxDefs  == 2   \* definitions constructed in the registration scenario

\* ------------------------------------------------------------------ values
\* JavaScript values crossing the boundary.  "undefined" and "null" are the
\* two nullish values of the language, "a" and "b" two distinct other values.
Values == {"undefined", "null", "a", "b"}
Nullish == {"undefined", "null"}
\* Documents a collection can hold.
Docs == {"a", "b"}
\* Failures the host's remote-invocation primitive can reject with.
RemoteErrors == {"HandlerError", "NetworkError"}
\* The exception a schema's parse throws.
ZodError == "ZodError"
\* Marker for "parse threw" in the value-level operators below.
Fail == "FAIL"
None == "none"
\* The response slot of a call the host has not settled.
NoResponse == [ok |-> FALSE, v |-> None]

Names == {"n1", "n2"}
Handlers == {"f1", "f2"}
Builds == {"hook", "plain"}

\* Schemas a caller may supply.  A schema is the caller's parse function:
\*   strict  accepts "a" and "b" unchanged, rejects nullish values
\*   xform   accepts only "a" and transforms it into "b"
\*   nullify accepts "a" (transformed into null) and nullish values,
\*           rejects "b"
Schemas == {"strict", "xform", "nullify"}
Absent == "absent"

\* schema.parse(x): the parsed value, or Fail when parse throws.
parse(schema, x) ==
    CASE schema = "strict"  -> IF x \in {"a", "b"} THEN x ELSE Fail
      [] schema = "xform"   -> IF x = "a" THEN "b" ELSE Fail
      [] schema = "nullify" -> IF x = "a" THEN "null"
                               ELSE IF x \in Nullish THEN x ELSE Fail

\* Variants of the input stage with a plausible slip: one lets a rejected
\* input through unparsed, one validates but forwards the raw input.
InputStage_NoValidate(input, x) ==
    IF input = Absent THEN "undefined"
    ELSE IF parse(input, x) = Fail THEN x ELSE parse(input, x)

InputStage_ForwardRaw(input, x) ==
    IF input = Absent THEN "undefined"
    ELSE IF parse(input, x) = Fail THEN Fail ELSE x

\* `props.input?.parse(x)`: optional chaining yields undefined when the
\* schema is absent.
InputStage(input, x) ==
    IF input = Absent THEN "undefined" ELSE parse(input, x)

\* Variant of the output stage that falls back to the raw response when the
\* schema rejects it.
OutputStage_Swallow(build, output, x) ==
    LET r == IF output = Absent THEN "undefined" ELSE parse(output, x)
    IN  IF r = Fail \/ r \in Nullish THEN x ELSE r

\* hook build:  `props.output?.parse(x) ?? x`
\* plain build: `props.output.parse(x)`
OutputStage(build, output, x) ==
    IF build = "hook"
    THEN LET r == IF output = Absent THEN "undefined" ELSE parse(output, x)
         IN  IF r = Fail THEN Fail
             ELSE IF r \in Nullish THEN x ELSE r
    ELSE parse(output, x)

\* Variant of the continuation that also runs the output stage on a
\* rejection, as `.then(f, f)` would.
Then_BothBranches(build, output, response) ==
    LET r == OutputStage(build, output, response.v)
    IN  IF r = Fail
        THEN [status |-> "rejected", value |-> ZodError]
        ELSE [status |-> "resolved", value |-> r]

\* `promise.then(onFulfilled)` with onFulfilled the output stage: a
\* fulfilled response goes through the output stage (a throw there rejects
\* the derived promise), a rejected response passes through untouched.
Then(build, output, response) ==
    IF response.ok
    THEN LET r == OutputStage(build, output, response.v)
         IN  IF r = Fail
             THEN [status |-> "rejected", value |-> ZodError]
             ELSE [status |-> "resolved", value |-> r]
    ELSE [status |-> "rejected", value |-> response.v]

\* Variant that registers whatever the role.
Register_AnyRole(server, registry, entry) == Append(registry, entry)

\* `if (Meteor.isServer) { Meteor.methods(...) }` / `Meteor.publish(...)`:
\* the sequence of registration requests handed to the host.
Register(server, registry, entry) ==
    IF server THEN Append(registry, entry) ELSE registry

\* Props of a definition the build's types admit: the plain build requires
\* both schemas.
SchemaChoices(b) == IF b = "hook" THEN Schemas \cup {Absent} ELSE Schemas
PropsOf(b) ==
    [name : Names, input : SchemaChoices(b), output : SchemaChoices(b),
     fn : Handlers]

\* ------------------------------------------------------------------- state
VARIABLES
    isServer,        \* Meteor.isServer
    build,           \* which build of the module is loaded
    methodDefs,      \* props captured by each typedMethod callable
    subDefs,         \* props captured by each typedSubscribe callable
    methodsRegistry, \* requests made to Meteor.methods
    publishRegistry, \* requests made to Meteor.publish
    calls,           \* invocations of typed method callables
    callAsyncLog,    \* requests made to Meteor.callAsync
    runs,            \* runs of typed subscription callables
    subscribeLog,    \* requests made to Meteor.subscribe
    collection       \* current contents of the bound collection

vars == <<isServer, build, methodDefs, subDefs, methodsRegistry,
          publishRegistry, calls, callAsyncLog, runs, subscribeLog,
          collection>>

methodSide == <<calls, callAsyncLog>>
subSide == <<runs, subscribeLog, collection>>
defSide == <<methodDefs, subDefs, methodsRegistry, publishRegistry>>

\* ----------------------------------------------------------------- actions
\* typedMethod(props): registers on the server, returns the callable.
typedMethod(props) ==
    /\ Len(methodDefs) + Len(subDefs) < MaxDefs
    /\ methodsRegistry' =
         Register(isServer, methodsRegistry,
                  [name |-> props.name, fn |-> props.fn])
    /\ methodDefs' = Append(methodDefs, props)
    /\ UNCHANGED <<isServer, build, subDefs, publishRegistry, methodSide,
                   subSide>>

\* typedSubscribe(props): publishes on the server, returns the callable.
typedSubscribe(props) ==
    /\ Len(methodDefs) + Len(subDefs) < MaxDefs
    /\ publishRegistry' =
         Register(isServer, publishRegistry,
                  [name |-> props.name, fn |-> props.fn])
    /\ subDefs' = Append(subDefs, props)
    /\ UNCHANGED <<isServer, build, methodDefs, methodsRegistry, methodSide,
                   subSide>>

\* The callable returned by typedMethod, up to the point where it returns
\* the promise: the argument of Meteor.callAsync is evaluated first, so a
\* throwing parse leaves the arrow function before callAsync is reached.
MethodInvoke(i, x) ==
    /\ i \in 1..Len(methodDefs)
    /\ Len(calls) < MaxCalls
    /\ LET props == methodDefs[i]
           arg == InputStage(props.input, x)
           k == Len(calls) + 1
       IN  IF arg = Fail
           THEN /\ calls' = Append(calls,
                      [def |-> i, raw |-> x, status |-> "threw",
                       response |-> NoResponse, value |-> ZodError])
                /\ UNCHANGED callAsyncLog
           ELSE /\ calls' = Append(calls,
                      [def |-> i, raw |-> x, status |-> "pending",
                       response |-> NoResponse, value |-> None])
                /\ callAsyncLog' = Append(callAsyncLog,
                      [call |-> k, name |-> props.name, arg |-> arg])
    /\ UNCHANGED <<isServer, build, defSide, subSide>>

\* The host settles the promise of Meteor.callAsync; the `.then` callback
\* of the callable runs.
Settle(k, response) ==
    /\ k \in 1..Len(calls)
    /\ calls[k].status = "pending"
    /\ LET out == Then(build, methodDefs[calls[k].def].output, response)
       IN  calls' = [calls EXCEPT ![k] =
                       [@ EXCEPT !.status = out.status,
                                 !.response = response,
                                 !.value = out.value]]
    /\ UNCHANGED <<isServer, build, defSide, callAsyncLog, subSide>>

CallAsyncResolve(k, v) == Settle(k, [ok |-> TRUE, v |-> v])

CallAsyncReject(k, e) == Settle(k, [ok |-> FALSE, v |-> e])

\* Variant of the body that subscribes with the raw input before parsing it.
SubscribeBody_SubscribeFirst(b, props, x, coll) ==
    LET arg == InputStage(props.input, x)
        mapped == [j \in 1..Len(coll) |->
                     OutputStage(b, props.output, coll[j])]
    IN  IF arg = Fail
        THEN [trace |-> <<"subscribe">>, status |-> "threw",
              error |-> ZodError, subArg |-> x, result |-> <<>>]
        ELSE IF \E j \in 1..Len(coll) : mapped[j] = Fail
        THEN [trace |-> <<"subscribe", "find">>, status |-> "threw",
              error |-> ZodError, subArg |-> x, result |-> <<>>]
        ELSE [trace |-> <<"subscribe", "find">>, status |-> "returned",
              error |-> None, subArg |-> x, result |-> mapped]

\* The function handed to useTracker (hook build) or returned directly
\* (plain build): subscribe with the parsed input, read the collection, map
\* every document through the output stage.  `trace` lists the host
\* primitives reached, in order; a throw ends the body where it happens.
SubscribeBody(b, props, x, coll) ==
    LET arg == InputStage(props.input, x)
        mapped == [j \in 1..Len(coll) |->
                     OutputStage(b, props.output, coll[j])]
    IN  IF arg = Fail
        THEN [trace |-> <<>>, status |-> "threw", error |-> ZodError,
              subArg |-> None, result |-> <<>>]
        ELSE IF \E j \in 1..Len(coll) : mapped[j] = Fail
        THEN [trace |-> <<"subscribe", "find">>, status |-> "threw",
              error |-> ZodError, subArg |-> arg, result |-> <<>>]
        ELSE [trace |-> <<"subscribe", "find">>, status |-> "returned",
              error |-> None, subArg |-> arg, result |-> mapped]

\* The callable returned by typedSubscribe.  In the hook build it is
\* `useTracker(() => body, deps)`: the reactive binding is entered first and
\* runs the body synchronously; in the plain build it is the body itself.
SubscribeCallable(b, props, x, coll) ==
    LET body == SubscribeBody(b, props, x, coll)
    IN  IF b = "hook"
        THEN [body EXCEPT !.trace = <<"useTracker">> \o body.trace]
        ELSE body

\* One run of the typed subscription callable.
SubscribeRun(i, x) ==
    /\ i \in 1..Len(subDefs)
    /\ Len(runs) < MaxRuns
    /\ LET props == subDefs[i]
           r == SubscribeCallable(build, props, x, collection)
           n == Len(runs) + 1
       IN  /\ runs' = Append(runs,
                 [def |-> i, raw |-> x, docs |-> collection,
                  trace |-> r.trace, status |-> r.status,
                  error |-> r.error, result |-> r.result])
           /\ subscribeLog' =
                 IF r.subArg = None THEN subscribeLog
                 ELSE Append(subscribeLog,
                        [run |-> n, name |-> props.name, arg |-> r.subArg])
    /\ UNCHANGED <<isServer, build, defSide, methodSide, collection>>

\* The host brings the local collection to new contents (documents arrive
\* from or are withdrawn by the publication).
\* A collection never holds the same document twice (documents are keyed by
\* their _id).
Collections ==
    {c \in UNION {[1..n -> Docs] : n \in 0..MaxDocs} :
        \A i, j \in 1..Len(c) : c[i] = c[j] => i = j}

CollectionChange(docs) ==
    /\ docs \in Collections
    /\ docs # collection
    /\ collection' = docs
    /\ UNCHANGED <<isServer, build, defSide, methodSide, runs, subscribeLog>>

\* ---------------------------------------------------------- specifications
Empty ==
    /\ calls = <<>> /\ callAsyncLog = <<>>
    /\ runs = <<>> /\ subscribeLog = <<>>
    /\ collection = <<>>

\* Method scenario: one typedMethod definition has been constructed; its
\* callable is invoked and the host settles the calls.
Init ==
    /\ isServer \in BOOLEAN
    /\ build \in Builds
    /\ \E props \in PropsOf(build) :
         /\ props.fn = "f1"
         /\ methodDefs = <<props>>
         /\ methodsRegistry =
              Register(isServer, <<>>, [name |-> props.name, fn |-> props.fn])
    /\ subDefs = <<>> /\ publishRegistry = <<>>
    /\ Empty

Next ==
    \/ \E x \in Values : MethodInvoke(1, x)
    \/ \E k \in 1..MaxCalls, v \in Values : CallAsyncResolve(k, v)
    \/ \E k \in 1..MaxCalls, e \in RemoteErrors : CallAsyncReject(k, e)

Spec == Init /\ [][Next]_vars

\* Subscription scenario: one typedSubscribe definition has been
\* constructed; its callable runs while the collection changes.
InitSubscribe ==
    /\ isServer \in BOOLEAN
    /\ build \in Builds
    /\ \E props \in PropsOf(build) :
         /\ props.fn = "f1"
         /\ subDefs = <<props>>
         /\ publishRegistry =
              Register(isServer, <<>>, [name |-> props.name, fn |-> props.fn])
    /\ methodDefs = <<>> /\ methodsRegistry = <<>>
    /\ Empty

SubInputs == {"undefined", "a", "b"}

NextSubscribe ==
    \/ \E x \in SubInputs : SubscribeRun(1, x)
    \/ \E docs \in Collections : CollectionChange(docs)

SpecSubscribe == InitSubscribe /\ [][NextSubscribe]_vars

\* Registration scenario: definitions are constructed while the process
\* runs, and the callables already returned are used in between.
RegProps(b) == {p \in PropsOf(b) : p.input = "strict" /\ p.output = "strict"}

InitRegister ==
    /\ isServer \in BOOLEAN
    /\ build \in Builds
    /\ methodDefs = <<>> /\ methodsRegistry = <<>>
    /\ subDefs = <<>> /\ publishRegistry = <<>>
    /\ Empty

NextRegister ==
    \/ \E props \in RegProps(build) : typedMethod(props)
    \/ \E props \in RegProps(build) : typedSubscribe(props)
    \/ \E i \in 1..MaxDefs, x \in {"a", "null"} : MethodInvoke(i, x)
    \/ \E k \in 1..MaxCalls : CallAsyncResolve(k, "a")
    \/ \E k \in 1..MaxCalls : CallAsyncReject(k, "NetworkError")
    \/ \E i \in 1..MaxDefs, x \in {"a", "null"} : SubscribeRun(i, x)

SpecRegister == InitRegister /\ [][NextRegister]_vars

\* ------------------------------------------------------------ properties
\* Requests to Meteor.callAsync made on behalf of call k.
SentFor(k) == {j \in 1..Len(callAsyncLog) : callAsyncLog[j].call = k}
\* Requests to Meteor.subscribe made on behalf of run n.
SubscribedFor(n) == {j \in 1..Len(subscribeLog) : subscribeLog[j].run = n}
MethodProps(k) == methodDefs[calls[k].def]
SubProps(n) == subDefs[runs[n].def]
Settled(k) == calls[k].status \in {"resolved", "rejected"}

\* C1: a raw input the declared input schema rejects makes the typed method
\* callable throw the validation error synchronously, and Meteor.callAsync
\* is invoked zero times for that call.
C1_RejectedInputNeverSent ==
    \A k \in 1..Len(calls) :
        (/\ MethodProps(k).input # Absent
         /\ parse(MethodProps(k).input, calls[k].raw) = Fail)
        => /\ calls[k].status = "threw"
           /\ calls[k].value = ZodError
           /\ SentFor(k) = {}

C1_Witness ==
    \E k \in 1..Len(calls) :
        /\ MethodProps(k).input # Absent
        /\ parse(MethodProps(k).input, calls[k].raw) = Fail
        /\ calls[k].status = "threw"
        /\ \E k2 \in 1..Len(calls) : SentFor(k2) # {}

\* C2: with the input schema omitted the input stage is the identity: the
\* typed method callable hands exactly the raw input to Meteor.callAsync,
\* the typed subscription callable hands exactly the raw input to
\* Meteor.subscribe, and no validation error is raised for that stage.
C2_AbsentInputIsIdentity ==
    /\ \A k \in 1..Len(calls) :
           MethodProps(k).input = Absent
           => /\ calls[k].status # "threw"
              /\ SentFor(k) # {}
              /\ \A j \in SentFor(k) : callAsyncLog[j].arg = calls[k].raw
    /\ \A n \in 1..Len(runs) :
           SubProps(n).input = Absent
           => /\ SubscribedFor(n) # {}
              /\ \A j \in SubscribedFor(n) : subscribeLog[j].arg = runs[n].raw

\* C3: on a successful round trip the typed method callable resolves to the
\* value the output schema's parse produces from the raw response, whatever
\* that value is (null, undefined or different from the response included);
\* with the output schema omitted it resolves to the raw response.
C3_ResolvesToParsedOutput ==
    \A k \in 1..Len(calls) :
        (Settled(k) /\ calls[k].response.ok)
        => LET out == MethodProps(k).output
               v == calls[k].response.v
           IN  /\ out = Absent
                  => calls[k].status = "resolved" /\ calls[k].value = v
               /\ (out # Absent /\ parse(out, v) # Fail)
                  => /\ calls[k].status = "resolved"
                     /\ calls[k].value = parse(out, v)

\* C4: a response the declared output schema rejects makes the promise of
\* the typed method callable reject with the validation error; it never
\* resolves in that case.
C4_RejectedOutputRejects ==
    \A k \in 1..Len(calls) :
        (/\ Settled(k)
         /\ calls[k].response.ok
         /\ MethodProps(k).output # Absent
         /\ parse(MethodProps(k).output, calls[k].response.v) = Fail)
        => calls[k].status = "rejected" /\ calls[k].value = ZodError

C4_Witness ==
    \E k \in 1..Len(calls) :
        /\ calls[k].response.ok
        /\ MethodProps(k).output # Absent
        /\ parse(MethodProps(k).output, calls[k].response.v) = Fail
        /\ calls[k].status = "rejected"

\* C5: a call whose input the input schema accepts causes exactly one
\* Meteor.callAsync request, addressed by props.name and carrying
\* input.parse(raw input); the count stays one while the call is pending,
\* after it resolved and after it was rejected, also when an identical call
\* has been made.
C5_ExactlyOneInvocation ==
    \A k \in 1..Len(calls) :
        (/\ MethodProps(k).input # Absent
         /\ parse(MethodProps(k).input, calls[k].raw) # Fail)
        => /\ Cardinality(SentFor(k)) = 1
           /\ \A j \in SentFor(k) :
                 /\ callAsyncLog[j].name = MethodProps(k).name
                 /\ callAsyncLog[j].arg =
                       parse(MethodProps(k).input, calls[k].raw)

C5_Witness ==
    \E k1, k2 \in 1..Len(calls) :
        /\ k1 # k2
        /\ calls[k1].raw = calls[k2].raw
        /\ MethodProps(k1).input # Absent
        /\ parse(MethodProps(k1).input, calls[k1].raw) # calls[k1].raw
        /\ parse(MethodProps(k1).input, calls[k1].raw) # Fail
        /\ calls[k1].status = "resolved"
        /\ calls[k2].status = "rejected"

\* C6: when Meteor.callAsync rejects, the promise of the typed method
\* callable rejects with that same failure: no output validation, no
\* fallback value, no validation error in its place.
C6_RemoteFailureUnmodified ==
    \A k \in 1..Len(calls) :
        (Settled(k) /\ ~calls[k].response.ok)
        => /\ calls[k].status = "rejected"
           /\ calls[k].value = calls[k].response.v

C6_Witness ==
    \E k \in 1..Len(calls) :
        /\ Settled(k)
        /\ ~calls[k].response.ok
        /\ calls[k].response.v \in RemoteErrors
        /\ MethodProps(k).output # Absent
        /\ calls[k].status = "rejected"

\* C7: with a declared output schema a run of the typed subscription
\* callable returns one element per document of the collection, in order,
\* each equal to output.parse(document), when the schema accepts every
\* document; when it rejects one the run throws the validation error and
\* returns no array.
C7_DocumentsParsedOrFail ==
    \A n \in 1..Len(runs) :
        LET p == SubProps(n)
            r == runs[n]
        IN  (p.output # Absent /\ InputStage(p.input, r.raw) # Fail)
            => IF \A j \in 1..Len(r.docs) : parse(p.output, r.docs[j]) # Fail
               THEN /\ r.status = "returned"
                    /\ r.result =
                          [j \in 1..Len(r.docs) |-> parse(p.output, r.docs[j])]
               ELSE /\ r.status = "threw"
                    /\ r.error = ZodError
                    /\ r.result = <<>>

\* C8 as stated: for an input the input schema rejects, the validation
\* error is raised before any host primitive (reactive binding, subscribe,
\* collection find) has been called; for an accepted input exactly one
\* subscribe(props.name, parsed input) is issued and then the collection is
\* read.
C8_NoHostInteractionBeforeValidation ==
    \A n \in 1..Len(runs) :
        LET p == SubProps(n)
            r == runs[n]
        IN  p.input # Absent
            => IF parse(p.input, r.raw) = Fail
               THEN /\ r.status = "threw"
                    /\ r.error = ZodError
                    /\ r.trace = <<>>
                    /\ SubscribedFor(n) = {}
               ELSE /\ Cardinality(SubscribedFor(n)) = 1
                    /\ \A j \in SubscribedFor(n) :
                          /\ subscribeLog[j].name = p.name
                          /\ subscribeLog[j].arg = parse(p.input, r.raw)
                    /\ Len(r.trace) >= 2
                    /\ SubSeq(r.trace, Len(r.trace) - 1, Len(r.trace)) =
                          <<"subscribe", "find">>

\* C8 amended: a run whose input the input schema rejects throws the
\* validation error before Meteor.subscribe or collection.find has been
\* called (in the hook build only useTracker has been entered, in the plain
\* build nothing); a run whose input is accepted issues exactly one
\* subscribe(props.name, parsed input), then reads the contents the
\* collection has at that moment, and a returned array has one element per
\* document read.
TrackerPrefix == IF build = "hook" THEN <<"useTracker">> ELSE <<>>

C8_ValidationBeforeSubscribeAndFind ==
    [][Len(runs') = Len(runs) + 1
       => LET n == Len(runs')
              r == runs'[n]
              p == subDefs[r.def]
          IN  p.input # Absent
              => IF parse(p.input, r.raw) = Fail
                 THEN /\ r.status = "threw"
                      /\ r.error = ZodError
                      /\ r.trace = TrackerPrefix
                      /\ subscribeLog' = subscribeLog
                 ELSE /\ subscribeLog' = Append(subscribeLog,
                            [run |-> n, name |-> p.name,
                             arg |-> parse(p.input, r.raw)])
                      /\ r.trace = TrackerPrefix \o <<"subscribe", "find">>
                      /\ r.docs = collection
                      /\ r.status = "returned"
                         => Len(r.result) = Len(collection)]_vars

C8_Witness ==
    /\ build = "hook"
    /\ \E n1, n2 \in 1..Len(runs) :
          /\ SubProps(n1).input # Absent
          /\ parse(SubProps(n1).input, runs[n1].raw) = Fail
          /\ runs[n1].status = "threw"
          /\ parse(SubProps(n2).input, runs[n2].raw) # Fail
          /\ runs[n2].status = "returned"
          /\ runs[n2].docs # <<>>
          /\ SubscribedFor(n2) # {}

\* C9: constructing a definition hands its handler, under props.name, to
\* the matching host registry exactly once when the process is the server
\* and leaves both registries alone when it is a client; a step that is not
\* a construction (an invocation of a callable, a settled call) changes
\* neither registry.
C9_RegistersOnlyOnServerAtConstruction ==
    [][/\ methodDefs' # methodDefs
          => /\ publishRegistry' = publishRegistry
             /\ LET p == methodDefs'[Len(methodDefs')]
                IN  methodsRegistry' =
                       IF isServer
                       THEN Append(methodsRegistry,
                                   [name |-> p.name, fn |-> p.fn])
                       ELSE methodsRegistry
       /\ subDefs' # subDefs
          => /\ methodsRegistry' = methodsRegistry
             /\ LET p == subDefs'[Len(subDefs')]
                IN  publishRegistry' =
                       IF isServer
                       THEN Append(publishRegistry,
                                   [name |-> p.name, fn |-> p.fn])
                       ELSE publishRegistry
       /\ (methodDefs' = methodDefs /\ subDefs' = subDefs)
          => /\ methodsRegistry' = methodsRegistry
             /\ publishRegistry' = publishRegistry]_vars

C9_Witness ==
    /\ isServer
    /\ Len(methodsRegistry) = 1
    /\ Len(publishRegistry) = 1
    /\ \E k \in 1..Len(calls) : Settled(k)
    /\ runs # <<>>

====
